---- MODULE Spec2Model ----
(***************************************************************************)
(* The typing-practice component of src/src/components/TypingPractice.tsx  *)
(* as a state machine.  The React state of the component is the state of   *)
(* the model; one action stands for one event delivered by the browser     *)
(* (a keydown, a tick of the interval, a click on a passage button)        *)
(* together with the render and the effects that follow it before the next *)
(* event is delivered.                                                     *)
(*                                                                         *)
(* Array and string indices are 0-based in the source and 1-based here:    *)
(* currentText[currentIndex] of the source is currentText[currentIndex+1]. *)
(***************************************************************************)
EXTENDS Integers, Sequences, FiniteSets, TLC

(***************************************************************************)
(* Bounds of the model.                                                    *)
(***************************************************************************)
\* The passage typed is cut to its first TextLen - 1 or TextLen characters.
TextLen == 3
\* At most this many characters are typed (right or wrong) in one session.
MaxTyped == 3
\* The interval ticks at most this many times in one session.
MaxElapsed == 1
\* At most this many sessions are completed and logged.
MaxResults == 2
StatsMaxCorrect == 23   \* largest correctChars the statistics are computed for
StatsMaxElapsed == 24   \* largest elapsed the statistics are computed for
StatsMaxErrors == 17    \* largest errors the statistics are computed for
UnitsPerSecond == 2     \* steps of the clock in the 1000 ms of the interval

(***************************************************************************)
(* The passage catalog (TEXTS), each passage cut to its first TextLen      *)
(* characters.                                                             *)
(***************************************************************************)
Text0 == <<"T", "h", "e", " ", "q", "u", "i", "c", "k">>
Text1 == <<"P", "r", "a", "c", "t", "i", "c", "e", " ">>
Text2 == <<"T", "y", "p", "i", "n", "g", " ", "i", "s">>

Cut(text, n) == SubSeq(text, 1, IF n < Len(text) THEN n ELSE Len(text))

TEXTS == <<Cut(Text0, TextLen), Cut(Text1, TextLen), Cut(Text2, TextLen)>>

(***************************************************************************)
(* Keyboard events: the key identifier and the three modifier flags that   *)
(* handleKeyDown reads.                                                    *)
(***************************************************************************)
Keys == {"T", "t", "h", "e", "Backspace", "Shift"}

\* The keys that are also pressed together with a modifier.
ModifiedKeys == {"h", "Backspace"}

Modifiers(e) ==
    (IF e.ctrlKey THEN {"ctrl"} ELSE {}) \cup (IF e.metaKey THEN {"meta"} ELSE {})
        \cup (IF e.altKey THEN {"alt"} ELSE {})

\* Every key alone, and the keys of ModifiedKeys with one modifier held.
KeyEvents ==
    {e \in [key : Keys, ctrlKey : BOOLEAN, metaKey : BOOLEAN, altKey : BOOLEAN] :
        \/ Modifiers(e) = {}
        \/ e.key \in ModifiedKeys /\ Cardinality(Modifiers(e)) = 1}

VARIABLES
    currentTextIndex,   \* useState(0): index of the highlighted passage button
    currentText,        \* useState(TEXTS[currentTextIndex]): the passage typed
    currentIndex,       \* useState(0): the cursor
    stats,              \* useState<Stats>: elapsed, correctChars, totalChars, errors, backspaces
    isActive,           \* useState(false)
    savedResults,       \* useState<SavedResult[]>([]), newest first
    isFinished,         \* useState(false)
    interval,           \* TRUE iff the timer effect has an interval installed
    phase,              \* clock units since the interval was installed or fired
    waited,             \* clock units an interval has been pending without a tick
    shown,              \* what the last render put on the screen
    statsTable,         \* wpm and accuracy of the counters in range (never changes)
    logged,             \* history: results appended since the last reset
    lastEv              \* history: the event handled last

vars == <<currentTextIndex, currentText, currentIndex, stats, isActive,
          savedResults, isFinished, interval, phase, waited, shown, statsTable,
          logged, lastEv>>

\* The part of the React state that handlers and effects update.
State == [currentIndex |-> currentIndex, stats |-> stats, isActive |-> isActive,
          savedResults |-> savedResults, isFinished |-> isFinished]

ZeroStats == [elapsed |-> 0, correctChars |-> 0, totalChars |-> 0,
              errors |-> 0, backspaces |-> 0]

(***************************************************************************)
(* IEEE 754 binary64 arithmetic, which is what / and * of the source        *)
(* compute.  A natural number below 2^60 is kept as three limbs of 20 bits, *)
(* least significant first; a double is [neg, m, e] with the value          *)
(* (-1)^neg * m * 2^e, where 2^52 <= m < 2^53, or m = 0 for zero.           *)
(***************************************************************************)
Limb == 2^20

BigZero == <<0, 0, 0>>
BigOne == <<1, 0, 0>>
Two52 == <<0, 0, 2^12>>
Two53 == <<0, 0, 2^13>>

\* Carries (or borrows) moved up into the next limb.
BigNorm(a) ==
    LET l1 == a[2] + (a[1] \div Limb)
    IN  <<a[1] % Limb, l1 % Limb, a[3] + (l1 \div Limb)>>

BigOfInt(n) == BigNorm(<<n, 0, 0>>)
BigToInt(a) == a[1] + Limb * a[2]
BigAdd(a, b) == BigNorm(<<a[1] + b[1], a[2] + b[2], a[3] + b[3]>>)
BigSub(a, b) == BigNorm(<<a[1] - b[1], a[2] - b[2], a[3] - b[3]>>)
BigDbl(a) == BigAdd(a, a)
BigHalf(a) ==
    <<(a[1] \div 2) + (a[2] % 2) * (Limb \div 2),
      (a[2] \div 2) + (a[3] % 2) * (Limb \div 2),
      a[3] \div 2>>
BigGeq(a, b) ==
    \/ a[3] > b[3]
    \/ a[3] = b[3] /\ a[2] > b[2]
    \/ a[3] = b[3] /\ a[2] = b[2] /\ a[1] >= b[1]

RECURSIVE BigTimes(_, _)
BigTimes(a, k) ==
    IF k = 0 THEN BigZero
    ELSE BigAdd(IF k % 2 = 1 THEN a ELSE BigZero, BigDbl(BigTimes(a, k \div 2)))

DblZero(neg) == [neg |-> neg, m |-> BigZero, e |-> 0]

\* The double nearest to q * 2^e plus a discarded part that is less than
\* (cmp < 0), equal to (cmp = 0) or more than (cmp > 0) half a unit of q:
\* round to nearest, ties to even.
DblNearest(neg, q, e, cmp) ==
    LET up == cmp > 0 \/ (cmp = 0 /\ q[1] % 2 = 1)
        m == IF up THEN BigAdd(q, BigOne) ELSE q
    IN  IF BigGeq(m, Two53)
        THEN [neg |-> neg, m |-> BigHalf(m), e |-> e + 1]
        ELSE [neg |-> neg, m |-> m, e |-> e]

\* The loops below run at most 53 times; each is written as one step that
\* leaves a finished value alone, applied eight at a time until it is finished.
\* One step of the normalisation of m # 0 to 53 bits: m * 2^e is kept.
DblNormaliseStep(x) ==
    IF BigGeq(x.m, Two52) THEN x
    ELSE [neg |-> x.neg, m |-> BigDbl(x.m), e |-> x.e - 1]

DblNormalise8(x) ==
    DblNormaliseStep(DblNormaliseStep(DblNormaliseStep(DblNormaliseStep(
    DblNormaliseStep(DblNormaliseStep(DblNormaliseStep(DblNormaliseStep(x))))))))

RECURSIVE DblNormalise(_)
DblNormalise(x) ==
    IF BigGeq(x.m, Two52) THEN x ELSE DblNormalise(DblNormalise8(x))

\* An integer of the source as a double (exact below 2^31).
DblOfInt(n) ==
    IF n = 0 THEN DblZero(FALSE)
    ELSE DblNormalise([neg |-> n < 0,
                       m |-> BigOfInt(IF n < 0 THEN -n ELSE n), e |-> 0])

\* One step of binary long division by d: a quotient bit is produced unless
\* q has 53 bits already.
DblDivStep(s) ==
    IF BigGeq(s.q, Two52) THEN s
    ELSE LET r2 == BigDbl(s.r)
         IN  IF BigGeq(r2, s.d)
             THEN [q |-> BigAdd(BigDbl(s.q), BigOne), r |-> BigSub(r2, s.d),
                   d |-> s.d, t |-> s.t + 1]
             ELSE [q |-> BigDbl(s.q), r |-> r2, d |-> s.d, t |-> s.t + 1]

DblDivStep8(s) ==
    DblDivStep(DblDivStep(DblDivStep(DblDivStep(
    DblDivStep(DblDivStep(DblDivStep(DblDivStep(s))))))))

RECURSIVE DblDivLoop(_)
DblDivLoop(s) ==
    IF BigGeq(s.q, Two52) THEN s ELSE DblDivLoop(DblDivStep8(s))

\* x / y for y # 0.
DblDiv(x, y) ==
    IF x.m = BigZero THEN DblZero(x.neg # y.neg)
    ELSE LET first == BigGeq(x.m, y.m)
             d == DblDivLoop([q |-> IF first THEN BigOne ELSE BigZero,
                              r |-> IF first THEN BigSub(x.m, y.m) ELSE x.m,
                              d |-> y.m, t |-> 0])
             twice == BigDbl(d.r)
             cmp == IF twice = y.m THEN 0 ELSE IF BigGeq(twice, y.m) THEN 1 ELSE -1
         IN  DblNearest(x.neg # y.neg, d.q, x.e - y.e - d.t, cmp)

\* The low bits of p shifted out until p has 53 bits; rem of pow is the part
\* shifted out.
RECURSIVE DblShiftLoop(_, _, _, _)
DblShiftLoop(p, e, rem, pow) ==
    IF ~BigGeq(p, Two53) THEN [p |-> p, e |-> e, rem |-> rem, pow |-> pow]
    ELSE DblShiftLoop(BigHalf(p), e + 1, rem + (p[1] % 2) * pow, 2 * pow)

\* x * k for an integer literal 0 < k < 2^7.
DblTimesInt(x, k) ==
    IF x.m = BigZero THEN x
    ELSE LET s == DblShiftLoop(BigTimes(x.m, k), x.e, 0, 1)
             cmp == IF 2 * s.rem = s.pow THEN 0
                    ELSE IF 2 * s.rem > s.pow THEN 1 ELSE -1
         IN  DblNearest(x.neg, s.p, s.e, cmp)

\* One step of a shift to the right by n bits; lost tells whether a 1 was
\* shifted out.
BigShrStep(s) ==
    IF s.n = 0 \/ s.m = BigZero THEN s
    ELSE [m |-> BigHalf(s.m), n |-> s.n - 1, lost |-> s.lost \/ s.m[1] % 2 = 1]

BigShrStep8(s) ==
    BigShrStep(BigShrStep(BigShrStep(BigShrStep(
    BigShrStep(BigShrStep(BigShrStep(BigShrStep(s))))))))

\* m shifted right by s.n >= 0 bits.
RECURSIVE BigShr(_)
BigShr(s) ==
    IF s.n = 0 \/ s.m = BigZero THEN s ELSE BigShr(BigShrStep8(s))

\* Math.round: the integer nearest to x, the larger one of two equally near
\* (for |x| < 2^30).
MathRound(x) ==
    LET h == BigShr([m |-> x.m, n |-> -x.e - 1, lost |-> FALSE])  \* floor(2|x|)
        twice == BigToInt(h.m)
    IN  IF x.m = BigZero THEN 0
        ELSE IF ~x.neg THEN (twice + 1) \div 2
        ELSE IF h.lost THEN -((twice + 1) \div 2)
        ELSE -(twice \div 2)

(***************************************************************************)
(* Derived statistics.                                                     *)
(***************************************************************************)
\* The rational p / q rounded to the nearest integer, halves up (q > 0).
Round(p, q) == (2 * p + q) \div (2 * q)

\* Math.round((stats.correctChars / 5) / (stats.elapsed / 60))
WpmOf(correctChars, elapsed) ==
    IF elapsed > 0
    THEN MathRound(DblDiv(DblDiv(DblOfInt(correctChars), DblOfInt(5)),
                          DblDiv(DblOfInt(elapsed), DblOfInt(60))))
    ELSE 0

\* Math.round((stats.correctChars / totalInput) * 100)
AccuracyOf(correctChars, errors) ==
    LET totalInput == correctChars + errors
    IN  IF totalInput > 0
        THEN MathRound(DblTimesInt(DblDiv(DblOfInt(correctChars),
                                          DblOfInt(totalInput)), 100))
        ELSE 100

\* The counters a bounded session can reach.
SessionCounts == (0 - MaxTyped - 1)..(MaxTyped + 1)

\* wpm and accuracy for every pair of counters a bounded session can reach.
StatsTable ==
    [wpm |-> [c \in SessionCounts, e \in 0..MaxElapsed |-> WpmOf(c, e)],
     accuracy |-> [c \in SessionCounts, r \in 0..(MaxTyped + 1) |->
                       AccuracyOf(c, r)]]

\* const wpm = ..., looked up in the table that the initial state holds.
Wpm(st) == statsTable.wpm[st.correctChars, st.elapsed]

\* const accuracy = ..., looked up likewise.
Accuracy(st) == statsTable.accuracy[st.correctChars, st.errors]

(***************************************************************************)
(* utils/fingeringMap.ts.  The labels of the source are Chinese; they are  *)
(* written here in English: left/right little, ring, middle and index      *)
(* finger, either thumb, and "undefined" for the label of a character      *)
(* without an entry.                                                       *)
(***************************************************************************)
UpperCase == <<"A", "B", "C", "D", "E", "F", "G", "H", "I", "J", "K", "L", "M",
              "N", "O", "P", "Q", "R", "S", "T", "U", "V", "W", "X", "Y", "Z">>
LowerCase == <<"a", "b", "c", "d", "e", "f", "g", "h", "i", "j", "k", "l", "m",
              "n", "o", "p", "q", "r", "s", "t", "u", "v", "w", "x", "y", "z">>

\* The characters without a lower-case form that a US keyboard types.
OtherChars == {"0", "1", "2", "3", "4", "5", "6", "7", "8", "9", " ", ",",
               ".", "!", "?", ";", ":", "-", "'", "/", "(", ")", "=", "+"}

\* The one-character strings the lookup is applied to.
Chars == {UpperCase[i] : i \in 1..Len(UpperCase)}
             \cup {LowerCase[i] : i \in 1..Len(LowerCase)} \cup OtherChars

\* String.prototype.toLowerCase on one character.
toLowerCase(char) ==
    IF \E i \in 1..Len(UpperCase) : UpperCase[i] = char
    THEN LowerCase[CHOOSE i \in 1..Len(UpperCase) : UpperCase[i] = char]
    ELSE char

FINGERING_MAP ==
    [c \in {"a", "q", "z"} |-> "left little finger"]
    @@ [c \in {"s", "w", "x"} |-> "left ring finger"]
    @@ [c \in {"d", "e", "c"} |-> "left middle finger"]
    @@ [c \in {"f", "g", "r", "t", "v", "b"} |-> "left index finger"]
    @@ [c \in {"h", "j", "u", "y", "n", "m"} |-> "right index finger"]
    @@ [c \in {"k", "i", ","} |-> "right middle finger"]
    @@ [c \in {"l", "o", "."} |-> "right ring finger"]
    @@ [c \in {"p"} |-> "right little finger"]
    @@ [c \in {" "} |-> "either thumb"]

\* getFingerHint that looks the character up as it is.
getFingerHintCaseSensitive(char) ==
    IF char \in DOMAIN FINGERING_MAP THEN FINGERING_MAP[char] ELSE "undefined"

\* FINGERING_MAP[lowerChar] || the label "undefined"
getFingerHint(char) ==
    LET lowerChar == toLowerCase(char)
    IN  IF lowerChar \in DOMAIN FINGERING_MAP
        THEN FINGERING_MAP[lowerChar]
        ELSE "undefined"

(***************************************************************************)
(* handleKeyDown.  The state updates of one call are batched by React, so  *)
(* the operator maps the state the handler closed over to the state of the *)
(* next render.                                                            *)
(***************************************************************************)
\* IsCompleted with > for >=.
IsCompletedOffByOne(s) == s.currentIndex > Len(currentText)

\* isCompleted, and the guard on the first line of handleKeyDown.
IsCompleted(s) == s.currentIndex >= Len(currentText)

\* currentText[currentIndex]; indexing a string past its end yields undefined.
TargetChar(s) ==
    IF s.currentIndex < Len(currentText)
    THEN currentText[s.currentIndex + 1]
    ELSE "undefined"

\* "Ignore control keys and special keys"
Ignored(e) == e.ctrlKey \/ e.metaKey \/ e.altKey \/ Len(e.key) > 1

\* OnBackspace without the test currentIndex > 0.
OnBackspaceNoFloor(s) ==
    [s EXCEPT !.currentIndex = s.currentIndex - 1,
              !.stats.backspaces = @ + 1]

\* OnBackspace that counts the Backspace at cursor 0 too.
OnBackspaceCountAtZero(s) ==
    IF s.currentIndex > 0
    THEN [s EXCEPT !.currentIndex = s.currentIndex - 1,
                   !.stats.backspaces = @ + 1]
    ELSE [s EXCEPT !.stats.backspaces = @ + 1]

\* OnBackspace that does not count the Backspace.
OnBackspaceUncounted(s) ==
    IF s.currentIndex > 0
    THEN [s EXCEPT !.currentIndex = s.currentIndex - 1]
    ELSE s

\* OnBackspace that takes the character back out of totalChars and correctChars.
OnBackspaceUndo(s) ==
    IF s.currentIndex > 0
    THEN [s EXCEPT !.currentIndex = s.currentIndex - 1,
                   !.stats.backspaces = @ + 1,
                   !.stats.correctChars = @ - 1,
                   !.stats.totalChars = @ - 1]
    ELSE s

\* The Backspace branch.
OnBackspace(s) ==
    IF s.currentIndex > 0
    THEN [s EXCEPT !.currentIndex = s.currentIndex - 1,
                   !.stats.backspaces = @ + 1]
    ELSE s

\* OnChar that advances on a match only (the strict variant of the component).
OnCharStrict(s, key) ==
    IF key = TargetChar(s)
    THEN [s EXCEPT !.currentIndex = s.currentIndex + 1,
                   !.stats.correctChars = @ + 1,
                   !.stats.totalChars = @ + 1]
    ELSE [s EXCEPT !.stats.errors = @ + 1,
                   !.stats.totalChars = @ + 1]

\* OnChar whose match is applied on top of a cursor update that was lost: the
\* counters move, the cursor does not.
OnCharLostCursorUpdate(s, key) ==
    IF key = TargetChar(s)
    THEN [s EXCEPT !.stats.correctChars = @ + 1,
                   !.stats.totalChars = @ + 1]
    ELSE [s EXCEPT !.stats.errors = @ + 1,
                   !.stats.totalChars = @ + 1,
                   !.currentIndex = s.currentIndex + 1]

\* The comparison of the key with the target character.
OnChar(s, key) ==
    IF key = TargetChar(s)
    THEN [s EXCEPT !.currentIndex = s.currentIndex + 1,
                   !.stats.correctChars = @ + 1,
                   !.stats.totalChars = @ + 1]
    ELSE [s EXCEPT !.stats.errors = @ + 1,
                   !.stats.totalChars = @ + 1,
                   !.currentIndex = s.currentIndex + 1]

HandleKeyDown(s, e) ==
    IF IsCompleted(s) THEN s
    ELSE LET a == IF ~s.isActive THEN [s EXCEPT !.isActive = TRUE] ELSE s
         IN  IF e.key = "Backspace" THEN OnBackspace(a)
             ELSE IF Ignored(e) THEN a
             ELSE OnChar(a, e.key)

(***************************************************************************)
(* handleReset and handleSelectText.  currentText has no setter: only the  *)
(* index of the highlighted button is stored.                              *)
(***************************************************************************)
HandleReset(s) ==
    [s EXCEPT !.currentIndex = 0, !.stats = ZeroStats,
              !.isActive = FALSE, !.isFinished = FALSE]

(***************************************************************************)
(* The effects.                                                            *)
(***************************************************************************)
\* AutoEnd that tests the cursor only, not isActive and isFinished.
AutoEndUnguarded(s) ==
    IF s.currentIndex >= Len(currentText)
    THEN LET newResult == [text |-> SubSeq(currentText, 1, s.currentIndex),
                           time |-> s.stats.elapsed,
                           wpm |-> Wpm(s.stats),
                           accuracy |-> Accuracy(s.stats),
                           errors |-> s.stats.errors,
                           backspaces |-> s.stats.backspaces]
         IN  [s EXCEPT !.savedResults = <<newResult>> \o @,
                       !.isFinished = TRUE,
                       !.isActive = FALSE]
    ELSE s

\* AutoEnd that puts the new result after the old ones.
AutoEndAppendLast(s) ==
    IF s.currentIndex >= Len(currentText) /\ s.isActive /\ ~s.isFinished
       /\ (s.stats.elapsed > 0 \/ s.currentIndex > 0)
    THEN LET newResult == [text |-> SubSeq(currentText, 1, s.currentIndex),
                           time |-> s.stats.elapsed,
                           wpm |-> Wpm(s.stats),
                           accuracy |-> Accuracy(s.stats),
                           errors |-> s.stats.errors,
                           backspaces |-> s.stats.backspaces]
         IN  [s EXCEPT !.savedResults = @ \o <<newResult>>,
                       !.isFinished = TRUE,
                       !.isActive = FALSE]
    ELSE s

\* AutoEnd that reads the counters of the render before the last event.
AutoEndStale(s) ==
    IF s.currentIndex >= Len(currentText) /\ s.isActive /\ ~s.isFinished
       /\ (s.stats.elapsed > 0 \/ s.currentIndex > 0)
    THEN LET newResult == [text |-> SubSeq(currentText, 1, s.currentIndex),
                           time |-> stats.elapsed,
                           wpm |-> Wpm(stats),
                           accuracy |-> Accuracy(stats),
                           errors |-> stats.errors,
                           backspaces |-> stats.backspaces]
         IN  [s EXCEPT !.savedResults = <<newResult>> \o @,
                       !.isFinished = TRUE,
                       !.isActive = FALSE]
    ELSE s

\* AutoEnd without setIsActive(false).
AutoEndStaysActive(s) ==
    IF s.currentIndex >= Len(currentText) /\ s.isActive /\ ~s.isFinished
       /\ (s.stats.elapsed > 0 \/ s.currentIndex > 0)
    THEN LET newResult == [text |-> SubSeq(currentText, 1, s.currentIndex),
                           time |-> s.stats.elapsed,
                           wpm |-> Wpm(s.stats),
                           accuracy |-> Accuracy(s.stats),
                           errors |-> s.stats.errors,
                           backspaces |-> s.stats.backspaces]
         IN  [s EXCEPT !.savedResults = <<newResult>> \o @,
                       !.isFinished = TRUE]
    ELSE s

\* "Auto-end when text is completed".  id and timestamp of the result are
\* readings of the wall clock and are left out of the record.
AutoEnd(s) ==
    IF s.currentIndex >= Len(currentText) /\ s.isActive /\ ~s.isFinished
       /\ (s.stats.elapsed > 0 \/ s.currentIndex > 0)
    THEN LET newResult == [text |-> SubSeq(currentText, 1, s.currentIndex),
                           time |-> s.stats.elapsed,
                           wpm |-> Wpm(s.stats),
                           accuracy |-> Accuracy(s.stats),
                           errors |-> s.stats.errors,
                           backspaces |-> s.stats.backspaces]
         IN  [s EXCEPT !.savedResults = <<newResult>> \o @,
                       !.isFinished = TRUE,
                       !.isActive = FALSE]
    ELSE s

\* The dependency array of the auto-end effect.
AutoEndDeps(s) ==
    <<s.currentIndex, Len(currentText), s.isActive, s.isFinished, s.stats,
      Wpm(s.stats), Accuracy(s.stats)>>

\* Render after a state update: the auto-end effect runs when one of its
\* dependencies changed, and its own updates cause the next render.
RECURSIVE Render(_, _)
Render(prev, cur) ==
    IF AutoEndDeps(cur) = AutoEndDeps(prev) THEN cur
    ELSE Render(cur, AutoEnd(cur))

\* TimerEffect without the test isActive: the interval outlives the session.
TimerEffectCursorOnly(s) == s.currentIndex > 0

\* TimerEffect without the test currentIndex > 0.
TimerEffectActiveOnly(s) == s.isActive

\* "Timer effect": the condition under which an interval is installed.
TimerEffect(s) == s.isActive /\ s.currentIndex > 0

\* nextTargetChar; "" stands for null, and for the undefined that indexing a
\* string before its start yields.
NextTargetChar(s) ==
    IF s.currentIndex < Len(currentText)
    THEN IF s.currentIndex >= 0 THEN currentText[s.currentIndex + 1] ELSE ""
    ELSE ""

\* fingerHint
FingerHint(nextTargetChar) ==
    IF nextTargetChar # "" THEN getFingerHint(nextTargetChar) ELSE ""

\* The values the render derives from the state: the WPM and Accuracy items
\* of the stats display, and the fingering hint with the key it is for.
Shown(s) == [wpm |-> Wpm(s.stats), accuracy |-> Accuracy(s.stats),
             nextTargetChar |-> NextTargetChar(s),
             fingerHint |-> FingerHint(NextTargetChar(s))]

\* The state n of the last render written back, with the interval that the
\* timer effect leaves and what is on the screen.
Committed(n, loggedBefore) ==
    /\ currentIndex' = n.currentIndex
    /\ stats' = n.stats
    /\ isActive' = n.isActive
    /\ savedResults' = n.savedResults
    /\ isFinished' = n.isFinished
    /\ interval' = IF <<n.isActive, n.currentIndex>> = <<isActive, currentIndex>>
                   THEN interval
                   ELSE TimerEffect(n)
    /\ shown' = Shown(n)
    /\ logged' = loggedBefore + Len(n.savedResults) - Len(savedResults)

\* The state after the event: the handler's updates rendered, the effects run.
Commit(h, loggedBefore) == Committed(Render(State, h), loggedBefore)

(***************************************************************************)
(* Events.                                                                 *)
(***************************************************************************)
NoKey == [key |-> "", ctrlKey |-> FALSE, metaKey |-> FALSE, altKey |-> FALSE]
NoEv == [type |-> "none", e |-> NoKey, index |-> 0]
KeyEv(e) == [type |-> "key", e |-> e, index |-> 0]
TickEv == [type |-> "tick", e |-> NoKey, index |-> 0]
SelectEv(i) == [type |-> "select", e |-> NoKey, index |-> i]

\* The timer effect after an event: when isActive or currentIndex changed, the
\* cleanup clears the interval and the effect installs a new one, which fires
\* 1000 ms later.
TimerRestart ==
    /\ phase' = IF <<isActive', currentIndex'>> # <<isActive, currentIndex>>
                   \/ ~interval'
                THEN 0
                ELSE phase
    /\ waited' = IF interval /\ interval' THEN waited ELSE 0

Init ==
    /\ currentTextIndex = 0
    /\ \E n \in {TextLen - 1, TextLen} :
          currentText = Cut(TEXTS[currentTextIndex + 1], n)
    /\ currentIndex = 0
    /\ stats = ZeroStats
    /\ isActive = FALSE
    /\ savedResults = <<>>
    /\ isFinished = FALSE
    /\ interval = FALSE
    /\ statsTable = StatsTable
    /\ phase = 0
    /\ waited = 0
    /\ shown = Shown([stats |-> ZeroStats, currentIndex |-> 0])
    /\ logged = 0
    /\ lastEv = NoEv

\* A keydown event on the window.
KeyDown(e) ==
    /\ LET h == HandleKeyDown(State, e)
       IN  /\ h.stats.totalChars <= MaxTyped
           /\ Commit(h, logged)
    /\ TimerRestart
    /\ lastEv' = KeyEv(e)
    /\ UNCHANGED <<currentTextIndex, currentText, statsTable>>

\* The interval callback, one second after the interval was installed or fired.
Tick ==
    /\ interval
    /\ stats.elapsed < MaxElapsed
    /\ Commit([State EXCEPT !.stats.elapsed = @ + 1], logged)
    /\ phase' = 0
    /\ waited' = 0
    /\ lastEv' = TickEv
    /\ UNCHANGED <<currentTextIndex, currentText, statsTable>>

\* The passage buttons with isActive ignored (as in the variant without
\* disabled={isActive}).
SelectAlwaysEnabled == TRUE

\* The passage buttons are rendered with disabled={isActive}; nothing else in
\* the component calls handleSelectText or handleReset.
SelectEnabled == ~isActive

\* A click on passage button index.
SelectText(index) ==
    /\ SelectEnabled
    /\ Len(savedResults) < MaxResults
    /\ currentTextIndex' = index
    /\ Commit(HandleReset(State), 0)
    /\ TimerRestart
    /\ lastEv' = SelectEv(index)
    /\ UNCHANGED <<currentText, statsTable>>

Next ==
    \/ \E e \in KeyEvents : KeyDown(e)
    \/ Tick
    \/ \E index \in 0..(Len(TEXTS) - 1) : SelectText(index)

Spec == Init /\ [][Next]_vars

(***************************************************************************)
(* The session with the clock: time passes in steps of 1/UnitsPerSecond    *)
(* second while an interval is pending, and the interval callback runs     *)
(* when the 1000 ms are over.                                              *)
(***************************************************************************)
MaxWaited == UnitsPerSecond + 1

TimeEv == [type |-> "time", e |-> NoKey, index |-> 0]

\* One unit of time passes before the interval pending is due.
Advance ==
    /\ interval
    /\ phase < UnitsPerSecond
    /\ waited < MaxWaited
    /\ phase' = phase + 1
    /\ waited' = waited + 1
    /\ lastEv' = TimeEv
    /\ UNCHANGED <<currentTextIndex, currentText, currentIndex, stats, isActive,
                   savedResults, isFinished, interval, shown, statsTable,
                   logged>>

NextTimed ==
    \/ \E e \in KeyEvents : KeyDown(e)
    \/ phase = UnitsPerSecond /\ Tick
    \/ Advance
    \/ \E index \in 0..(Len(TEXTS) - 1) : SelectText(index)

SpecTimed == Init /\ [][NextTimed]_vars

(***************************************************************************)
(* The derived statistics on their own: a freshly mounted component is     *)
(* rendered with counters drawn from bounded ranges.                       *)
(***************************************************************************)
StatsEv == [type |-> "stats", e |-> NoKey, index |-> 0]

RenderStats(st) ==
    /\ stats' = st
    /\ shown' = [shown EXCEPT
                     !.wpm = WpmOf(st.correctChars, st.elapsed),
                     !.accuracy = AccuracyOf(st.correctChars, st.errors)]
    /\ lastEv' = StatsEv
    /\ UNCHANGED <<currentTextIndex, currentText, currentIndex, isActive,
                   savedResults, isFinished, interval, phase, waited,
                   statsTable, logged>>

\* correctChars characters typed without an error in elapsed seconds.
StatsOverTime(correctChars, elapsed) ==
    /\ lastEv = NoEv
    /\ RenderStats([ZeroStats EXCEPT !.correctChars = correctChars,
                                     !.totalChars = correctChars,
                                     !.elapsed = elapsed])

\* correctChars matches and errors mismatches typed within the first second.
StatsOverErrors(correctChars, errors) ==
    /\ lastEv = NoEv
    /\ RenderStats([ZeroStats EXCEPT !.correctChars = correctChars,
                                     !.errors = errors,
                                     !.totalChars = correctChars + errors])

NextStats ==
    \/ \E c \in 0..StatsMaxCorrect, e \in 0..StatsMaxElapsed : StatsOverTime(c, e)
    \/ \E c \in 0..StatsMaxCorrect, r \in 0..StatsMaxErrors : StatsOverErrors(c, r)

SpecStats == Init /\ [][NextStats]_vars

(***************************************************************************)
(* The fingering hint on its own: a freshly mounted component is rendered  *)
(* with each character as the next target.                                 *)
(***************************************************************************)
HintEv == [type |-> "hint", e |-> NoKey, index |-> 0]

RenderHint(char) ==
    /\ lastEv = NoEv
    /\ shown' = [shown EXCEPT !.nextTargetChar = char,
                              !.fingerHint = FingerHint(char)]
    /\ lastEv' = HintEv
    /\ UNCHANGED <<currentTextIndex, currentText, currentIndex, stats, isActive,
                   savedResults, isFinished, interval, phase, waited,
                   statsTable, logged>>

NextHint == \E char \in Chars : RenderHint(char)

SpecHint == Init /\ [][NextHint]_vars

TypeOK ==
    /\ currentTextIndex \in 0..(Len(TEXTS) - 1)
    /\ currentIndex \in Int
    /\ isActive \in BOOLEAN /\ isFinished \in BOOLEAN /\ interval \in BOOLEAN
    /\ Len(savedResults) <= MaxResults

(***************************************************************************)
(* Properties.                                                             *)
(***************************************************************************)
IsKey(ev, k) == ev.type = "key" /\ ev.e.key = k

\* A single character pressed without ctrl, meta or alt.
Printable(e) == ~e.ctrlKey /\ ~e.metaKey /\ ~e.altKey /\ Len(e.key) = 1

\* C1: in every reachable state the cursor lies between 0 and the length of
\* the passage.
C1_CursorInRange == 0 <= currentIndex /\ currentIndex <= Len(currentText)

\* A Backspace handled at cursor 0, in a session that follows a completed one
\* (where the cursor had reached the length of the passage).
C1_Witness ==
    /\ IsKey(lastEv, "Backspace")
    /\ isActive /\ currentIndex = 0 /\ stats.backspaces = 0
    /\ Len(savedResults) > 0

\* C2: a printable key handled before the end of the passage advances the
\* cursor by 1 and counts as correct iff it equals the target character
\* exactly, as an error otherwise; a passage of two characters typed wrong
\* then right ends complete with cursor 2, one correct, one error, accuracy 50.
C2_Step ==
    \A e \in KeyEvents :
        (lastEv' = KeyEv(e) /\ Printable(e) /\ currentIndex < Len(currentText))
        => /\ currentIndex' = currentIndex + 1
           /\ IF e.key = currentText[currentIndex + 1]
              THEN /\ stats'.correctChars = stats.correctChars + 1
                   /\ stats'.errors = stats.errors
              ELSE /\ stats'.errors = stats.errors + 1
                   /\ stats'.correctChars = stats.correctChars

C2_WrongThenRight ==
    /\ Len(currentText) = 2
    /\ stats.totalChars = 2 /\ stats.errors = 1 /\ stats.backspaces = 0
    /\ IsKey(lastEv, currentText[2]) /\ Printable(lastEv.e)

C2_Scenario ==
    C2_WrongThenRight
    => /\ currentIndex = 2 /\ stats.correctChars = 1 /\ stats.errors = 1
       /\ Accuracy(stats) = 50 /\ IsCompleted(State) /\ isFinished

C2_KeyAdvances == [][C2_Step]_vars /\ []C2_Scenario

C2_Witness == C2_WrongThenRight /\ currentIndex = 2

\* C3: between two resets at most one result is appended to savedResults.
C3_LoggedOnce == logged <= 1

\* A key handled after the session was completed and logged.
C3_Witness == logged = 1 /\ isFinished /\ IsKey(lastEv, "Shift")

\* The cursor has reached the end of the passage.
Complete == currentIndex = Len(currentText)

\* The session state that a key event may change.
session == <<currentIndex, stats, isActive, isFinished, savedResults>>

\* C4: a complete session stays complete until a passage is selected, and a
\* key event handled in a complete session, Backspace included, changes
\* nothing.
C4_Step ==
    Complete
    => /\ lastEv'.type # "select" => Complete'
       /\ lastEv'.type = "key" => UNCHANGED session

C4_CompleteIsFrozen == [][C4_Step]_vars

\* A Backspace handled in a complete session.
C4_Witness ==
    IsKey(lastEv, "Backspace") /\ Complete /\ isFinished

\* C5 as stated: a key event with ctrl, meta or alt set, or with a key
\* identifier longer than one character other than Backspace, changes nothing,
\* the active flag included.
C5_IgnoredClass(e) ==
    e.ctrlKey \/ e.metaKey \/ e.altKey \/ (Len(e.key) > 1 /\ e.key # "Backspace")

C5_Step ==
    \A e \in KeyEvents :
        (lastEv' = KeyEv(e) /\ C5_IgnoredClass(e)) => UNCHANGED session

C5_IgnoredKeyChangesNothing == [][C5_Step]_vars

\* C6 as stated: every Backspace handled in a session that is not complete
\* sets the cursor to max(cursor - 1, 0) and increments backspaces, also at
\* cursor 0.
C6_OriginalStep ==
    (lastEv'.type = "key" /\ lastEv'.e.key = "Backspace" /\ ~Complete)
    => /\ currentIndex' = (IF currentIndex - 1 > 0 THEN currentIndex - 1 ELSE 0)
       /\ stats'.backspaces = stats.backspaces + 1
       /\ stats'.correctChars = stats.correctChars
       /\ stats'.errors = stats.errors

C6_Original == [][C6_OriginalStep]_vars

\* C6 amended: a Backspace handled in a session that is not complete, at
\* cursor > 0, decrements the cursor and increments backspaces; at cursor 0 it
\* leaves the cursor and backspaces as they are; correctChars and errors are
\* unchanged in both cases.
C6_AmendedStep ==
    (lastEv'.type = "key" /\ lastEv'.e.key = "Backspace" /\ ~Complete)
    => /\ IF currentIndex > 0
          THEN /\ currentIndex' = currentIndex - 1
               /\ stats'.backspaces = stats.backspaces + 1
          ELSE /\ currentIndex' = 0
               /\ stats'.backspaces = stats.backspaces
       /\ stats'.correctChars = stats.correctChars
       /\ stats'.errors = stats.errors

C6_Backspace == [][C6_AmendedStep]_vars

\* Two characters typed and the second taken back: the Backspace handled
\* last is the one that was counted, at cursor 2.
C6_Witness ==
    /\ IsKey(lastEv, "Backspace")
    /\ currentIndex = 1 /\ stats.totalChars = 2 /\ stats.backspaces = 1

\* C7 as stated: correctChars <= cursor in every reachable state.
C7_Original == stats.correctChars <= currentIndex

\* C7 amended: correctChars <= cursor + backspaces in every reachable state.
C7_CorrectBounded == stats.correctChars <= currentIndex + stats.backspaces

\* A correct character taken back by Backspace.
C7_Witness ==
    /\ stats.correctChars > currentIndex
    /\ stats.correctChars = currentIndex + stats.backspaces

\* C8: correctChars, errors and backspaces are never negative, no key event
\* or tick lowers one of them, and the selection of a passage sets them to 0.
C8_Step ==
    IF lastEv'.type = "select"
    THEN stats'.correctChars = 0 /\ stats'.errors = 0 /\ stats'.backspaces = 0
    ELSE /\ stats'.correctChars >= stats.correctChars
         /\ stats'.errors >= stats.errors
         /\ stats'.backspaces >= stats.backspaces

C8_NonNegative ==
    stats.correctChars >= 0 /\ stats.errors >= 0 /\ stats.backspaces >= 0

C8_CountersMonotone == [][C8_Step]_vars /\ []C8_NonNegative

\* A Backspace handled with all three counters above 0.
C8_Witness ==
    /\ IsKey(lastEv, "Backspace")
    /\ stats.correctChars > 0 /\ stats.errors > 0 /\ stats.backspaces > 0

\* C9: a tick happens only while isActive and cursor > 0, adds exactly 1 to
\* elapsed and changes nothing else; elapsed changes in no other way except
\* that the selection of a passage sets it to 0.
C9_Step ==
    /\ lastEv'.type = "tick"
       => /\ isActive /\ currentIndex > 0
          /\ stats' = [stats EXCEPT !.elapsed = @ + 1]
          /\ UNCHANGED <<currentIndex, isActive, isFinished, savedResults>>
    /\ stats'.elapsed # stats.elapsed
       => \/ lastEv'.type = "tick"
          \/ lastEv'.type = "select" /\ stats'.elapsed = 0

C9_TickOnlyWhileTyping == [][C9_Step]_vars

\* The cursor is back at 0 after a tick: the elapsed second stays.
C9_Witness ==
    /\ stats.elapsed = 1 /\ currentIndex = 0 /\ isActive
    /\ IsKey(lastEv, "Backspace")

\* C10 as stated: after the selection of passage i the passage typed is
\* catalog[i], the cursor and all counters are 0, isActive and isFinished false.
C10_SelectBindsPassage ==
    lastEv.type = "select"
    => /\ currentText = Cut(TEXTS[lastEv.index + 1], Len(currentText))
       /\ currentIndex = 0 /\ stats = ZeroStats
       /\ ~isActive /\ ~isFinished

\* A session in progress: active, with the cursor inside the passage.
MidSession == isActive /\ 0 < currentIndex /\ currentIndex < Len(currentText)

\* C11 as stated: in the middle of a session the passage can be switched, and
\* the switch discards the cursor and the counters, stops the timer and leaves
\* savedResults as it is.
C11_SelectStep ==
    lastEv'.type = "select"
    => /\ currentIndex' = 0 /\ stats' = ZeroStats
       /\ ~isActive' /\ ~isFinished' /\ ~interval'
       /\ savedResults' = savedResults

C11_AmendedStep ==
    lastEv'.type = "select" => (~isActive /\ ~MidSession /\ C11_SelectStep)

C12_Step ==
    \/ savedResults' = savedResults
    \/ /\ Len(savedResults') = Len(savedResults) + 1
       /\ Tail(savedResults') = savedResults
       /\ lastEv'.type = "key"

C12_AppendOnlyNewestFirst == [][C12_Step]_vars

\* Two different results logged, the one of the session just finished first.
C12_Witness ==
    /\ Len(savedResults) = 2 /\ isFinished
    /\ savedResults[1].errors = stats.errors
    /\ savedResults[2].errors # stats.errors

\* C13: the statistics on the screen are functions of the counters: wpm is 0
\* at elapsed 0 and otherwise 12 * correctChars / elapsed rounded to the
\* nearest integer with halves up; accuracy is 100 when nothing was typed and
\* otherwise 100 * correctChars / (correctChars + errors) rounded the same way,
\* and lies in 0..100.
C13_StatsAreRounded ==
    LET c == stats.correctChars
        e == stats.elapsed
        r == stats.errors
    IN  /\ shown.wpm = IF e = 0 THEN 0 ELSE Round(12 * c, e)
        /\ shown.accuracy = IF c + r = 0 THEN 100 ELSE Round(100 * c, c + r)
        /\ shown.accuracy \in 0..100

\* The parts of C13 the code does satisfy: the two special cases and the range.
C13_SpecialCases ==
    /\ stats.elapsed = 0 => shown.wpm = 0
    /\ stats.correctChars + stats.errors = 0 => shown.accuracy = 100
    /\ shown.accuracy \in 0..100

\* The characters the table has an entry for: the lower-case letters, the
\* space, the comma and the period.
C14_Lettered ==
    {UpperCase[i] : i \in 1..26} \cup {LowerCase[i] : i \in 1..26}
        \cup {" ", ",", "."}

\* C14: the hint shown for a character is the hint of its lower-case form;
\* each of the 26 letters in either case, the space, the comma and the period
\* has a finger label that is not "undefined"; every other character has the
\* label "undefined".
C14_HintTotalCaseInsensitive ==
    lastEv = HintEv =>
        LET c == shown.nextTargetChar
            h == shown.fingerHint
        IN  /\ h = getFingerHint(toLowerCase(c))
            /\ c \in C14_Lettered => h \notin {"undefined", ""}
            /\ c \notin C14_Lettered => h = "undefined"

\* The hint for an upper-case letter has been rendered, and it is the label
\* of the lower-case entry.
C14_Witness ==
    /\ lastEv = HintEv
    /\ shown.nextTargetChar = "Q"
    /\ shown.fingerHint = "left little finger"

\* The hint for a character without an entry has been rendered.
C14_WitnessUndefined ==
    /\ lastEv = HintEv
    /\ shown.nextTargetChar = "7"
    /\ shown.fingerHint = "undefined"

\* A key event that brings the cursor to the end of the passage in a session
\* that is not finished has, in the state it leaves, exactly one more saved
\* result, isFinished true and isActive false.
C15_Step ==
    (lastEv'.type = "key" /\ ~isFinished /\ ~Complete
        /\ currentIndex' = Len(currentText))
    => /\ Len(savedResults') = Len(savedResults) + 1
       /\ isFinished' /\ ~isActive'

\* A finished session has the cursor at the end of the passage, is not active
\* and has a saved result; no session is both active and finished.
C15_Finished ==
    /\ isFinished => Complete /\ ~isActive /\ Len(savedResults) > 0
    /\ ~(isActive /\ isFinished)

\* C15: the completion step follows the keystroke that completes the passage
\* before any other event is handled (one result appended, finished set,
\* active cleared); hence finished implies cursor at the end, not active and
\* a non-empty log, and active and finished are never both true.
C15_CompletionFollows == []C15_Finished /\ [][C15_Step]_vars

\* A session with a tick in it has been completed by a printable key.
C15_Witness ==
    /\ lastEv.type = "key" /\ Printable(lastEv.e)
    /\ isFinished /\ ~isActive /\ Complete
    /\ logged = 1 /\ stats.elapsed = 1

\* The result appended by a step is made of the passage and of the counters
\* and statistics of the state the step leaves, last keystroke included.
C16_Step ==
    Len(savedResults') = Len(savedResults) + 1
    => /\ stats'.totalChars = stats.totalChars + 1
       /\ savedResults'[1] = [text |-> currentText,
                              time |-> stats'.elapsed,
                              wpm |-> Wpm(stats'),
                              accuracy |-> Accuracy(stats'),
                              errors |-> stats'.errors,
                              backspaces |-> stats'.backspaces]

\* A passage of three characters typed with three keys, each the right one.
C16_AllCorrect ==
    /\ Len(currentText) = 3
    /\ stats.totalChars = 3 /\ stats.correctChars = 3 /\ stats.backspaces = 0
    /\ IsKey(lastEv, currentText[3]) /\ Printable(lastEv.e)

C16_Scenario ==
    C16_AllCorrect
    => /\ Complete /\ isFinished /\ logged = 1
       /\ savedResults[1].accuracy = 100 /\ savedResults[1].errors = 0

\* C16: the result logged on completion is a snapshot of the final values,
\* the last keystroke included: the whole passage, elapsed, errors,
\* backspaces, and accuracy and wpm of the final counters; a passage of three
\* characters typed right logs exactly one result, accuracy 100, errors 0.
C16_SummaryIsFinalSnapshot == [][C16_Step]_vars /\ []C16_Scenario

\* The three-character passage typed right, with a tick on the way.
C16_Witness ==
    /\ C16_AllCorrect /\ stats.elapsed = 1
    /\ savedResults[1].time = 1 /\ savedResults[1].accuracy = 100

\* A key event handled while an interval is pending, and leaving one pending,
\* leaves the time to the next tick as it was.
C17_Step ==
    (lastEv'.type = "key" /\ interval /\ interval') => phase' = phase

\* C17 as stated: while the session is active with the cursor past 0 a tick
\* comes with every full second, and no keystroke cancels, restarts or
\* postpones the tick that is pending.
C17_TickEverySecond ==
    [](interval => waited <= UnitsPerSecond) /\ [][C17_Step]_vars

\* What the code does keep: a tick comes a full second after the last event
\* that moved the cursor, never earlier.
C17_TickAfterQuietSecond ==
    [][lastEv'.type = "tick" => phase = UnitsPerSecond]_vars

\* A step that counts a character moves the cursor forward by one; a step
\* that counts a Backspace moves it back by one.
C18_Step ==
    /\ stats'.totalChars = stats.totalChars + 1
           => currentIndex' = currentIndex + 1
    /\ stats'.backspaces = stats.backspaces + 1
           => currentIndex' = currentIndex - 1

C18_Identity ==
    /\ stats.correctChars + stats.errors = currentIndex + stats.backspaces
    /\ stats.totalChars = stats.correctChars + stats.errors

\* C18: in every reachable state correctChars + errors = cursor + backspaces
\* and totalChars = correctChars + errors; every character counted advances
\* the cursor by one and every Backspace counted takes back one position.
C18_CounterIdentity == []C18_Identity /\ [][C18_Step]_vars

\* A match, a mismatch and a counted Backspace have been handled.
C18_Witness ==
    /\ stats.correctChars >= 1 /\ stats.errors >= 1 /\ stats.backspaces >= 1
    /\ lastEv.type = "key"

\* C19: while the session is finished, the newest saved result agrees with
\* the finished screen: its time, wpm, accuracy, errors and backspaces are the
\* current elapsed, wpm, accuracy, errors and backspaces, whatever keys and
\* ticks have arrived since.
C19_LogAgreesWithScreen ==
    isFinished
    => /\ Len(savedResults) > 0
       /\ savedResults[1].time = stats.elapsed
       /\ savedResults[1].wpm = shown.wpm
       /\ savedResults[1].accuracy = shown.accuracy
       /\ savedResults[1].errors = stats.errors
       /\ savedResults[1].backspaces = stats.backspaces

\* A key with ctrl held has arrived after a session with a tick, an error and
\* a Backspace was finished.
C19_Witness ==
    /\ isFinished /\ lastEv.type = "key" /\ lastEv.e.ctrlKey
    /\ stats.elapsed = 1 /\ stats.errors >= 1 /\ stats.backspaces >= 1

====
